---- MODULE Spec2Model ----
(***************************************************************************)
(* The job search agent of src/main.py as a state machine: query           *)
(* generation (get_search_queries), per-query scraping (run_scraper), the *)
(* experience filter (filter_experience) and the sheet writer              *)
(* (_get_sheet_client, save_to_sheet) working against a spreadsheet store  *)
(* whose calls may each fail.                                              *)
(*                                                                         *)
(* Values.  Cell values are strings, or one of pandas' missing values:     *)
(* None (Python's None) and NaN (the float nan).  A DataFrame is a record  *)
(* [cols, rows, title_dtype]: the set of column names it carries, its rows *)
(* in order, each row a record over AllFields whose absent columns hold    *)
(* None, and the dtype of its title column: "object" for a column of       *)
(* strings and missing values, "float64" for a column that holds only NaN. *)
(***************************************************************************)
EXTENDS Integers, Sequences, FiniteSets, TLC

VARIABLES
    \* ---- filter_experience
    fIn,        \* the frame handed to filter_experience
    fOut,       \* the frame it returned, or the exception it raised
    fpc,        \* "start" | "done"
    \* ---- get_search_queries
    gIn,        \* what the extractor and the model call do, and the reply
    gOut,       \* what the function returned or raised
    gpc,        \* "start" | "done"
    \* ---- run_scraper
    queries,    \* the argument
    qi,         \* index of the query the loop is at
    answers,    \* per query so far: whether scrape_jobs was called, its answer
    all_jobs,   \* the local list all_jobs
    issued,     \* the scrape_jobs calls made, in order
    warned,     \* indices of the queries whose failure was logged
    sOut,       \* the frame returned
    spc,        \* "loop" | "done" | the exception that left run_scraper
    \* ---- save_to_sheet and the spreadsheet store
    sheetExists,\* the spreadsheet exists in the store
    table,      \* the rows of its first worksheet
    fmtAvail,   \* FORMATTING_AVAILABLE
    pc,         \* position in save_to_sheet
    input,      \* the frame the current run was called with
    df,         \* the local df once prepared
    attempt,    \* connect attempts made in this run
    log,        \* the run's log records
    calls,      \* the run's calls to the store, in order
    failed,     \* the steps of this run whose call raised
    tableBefore,     \* the table when the run began
    prev,       \* the previous run: its input and the steps that failed
    runs,       \* runs started
    \* ---- __main__
    mpc         \* the call __main__ is at, or the exception that ended it

filterVars == <<fIn, fOut, fpc>>
queryVars  == <<gIn, gOut, gpc>>
scrapeVars == <<queries, qi, answers, all_jobs, issued, warned, sOut, spc>>
sheetVars  == <<sheetExists, table, fmtAvail, pc, input, df, attempt, log,
                calls, failed, tableBefore, prev, runs>>
mainVars   == <<mpc>>
vars == <<filterVars, queryVars, scrapeVars, sheetVars, mainVars>>

(***************************************************************************)
(* Bounds of the model.                                                    *)
(***************************************************************************)
MaxRows == 2        \* rows of a frame handed to filter_experience
MaxItems == 2       \* elements of a list in the model's reply
MaxQueries == 3     \* queries handed to run_scraper
MaxRuns == 2        \* save_to_sheet runs in a behaviour

None == "<None>"
NaN  == "<NaN>"

\* pandas.isna
IsNA(v) == v \in {None, NaN}

RECURSIVE SeqsUpTo(_, _)
SeqsUpTo(S, n) ==
    IF n = 0 THEN {<<>>}
    ELSE LET shorter == SeqsUpTo(S, n - 1)
         IN  shorter \cup {Append(s, x) : s \in {t \in shorter : Len(t) = n - 1}, x \in S}

(***************************************************************************)
(* Strings as characters.  TLC's strings are atomic, so the titles the     *)
(* model uses are listed with their characters; the regular expressions    *)
(* of CONFIG["SENIOR_KEYWORDS"] are evaluated on the characters.           *)
(***************************************************************************)
Titles ==
    {"Senior Data Scientist",
     "Data Scientist",
     "Engineering Manager",
     "ML Engineer (5+ years)",
     "SENIOR dev",
     "Team Leader",
     "Tech-Lead",
     "team_lead",
     "VP Sales",
     "Dev 6+years",
     "Dev 15+  Years",
     "Dev 4+ years",
     "Dev 7+ years",
     "Dev 5 years",
     "Headless Dev",
     "Dev 5+\nyears",
     ""}

Chars(t) ==
    CASE t = "Senior Data Scientist" ->
           <<"S", "e", "n", "i", "o", "r", " ", "D", "a", "t", "a", " ", "S", "c", "i", "e", "n", "t", "i", "s", "t">>
      [] t = "Data Scientist" ->
           <<"D", "a", "t", "a", " ", "S", "c", "i", "e", "n", "t", "i", "s", "t">>
      [] t = "Engineering Manager" ->
           <<"E", "n", "g", "i", "n", "e", "e", "r", "i", "n", "g", " ", "M", "a", "n", "a", "g", "e", "r">>
      [] t = "ML Engineer (5+ years)" ->
           <<"M", "L", " ", "E", "n", "g", "i", "n", "e", "e", "r", " ", "(", "5", "+", " ", "y", "e", "a", "r", "s", ")">>
      [] t = "SENIOR dev" ->
           <<"S", "E", "N", "I", "O", "R", " ", "d", "e", "v">>
      [] t = "Team Leader" ->
           <<"T", "e", "a", "m", " ", "L", "e", "a", "d", "e", "r">>
      [] t = "Tech-Lead" ->
           <<"T", "e", "c", "h", "-", "L", "e", "a", "d">>
      [] t = "team_lead" ->
           <<"t", "e", "a", "m", "_", "l", "e", "a", "d">>
      [] t = "VP Sales" ->
           <<"V", "P", " ", "S", "a", "l", "e", "s">>
      [] t = "Dev 6+years" ->
           <<"D", "e", "v", " ", "6", "+", "y", "e", "a", "r", "s">>
      [] t = "Dev 15+  Years" ->
           <<"D", "e", "v", " ", "1", "5", "+", " ", " ", "Y", "e", "a", "r", "s">>
      [] t = "Dev 4+ years" ->
           <<"D", "e", "v", " ", "4", "+", " ", "y", "e", "a", "r", "s">>
      [] t = "Dev 7+ years" ->
           <<"D", "e", "v", " ", "7", "+", " ", "y", "e", "a", "r", "s">>
      [] t = "Dev 5 years" ->
           <<"D", "e", "v", " ", "5", " ", "y", "e", "a", "r", "s">>
      [] t = "Headless Dev" ->
           <<"H", "e", "a", "d", "l", "e", "s", "s", " ", "D", "e", "v">>
      [] t = "Dev 5+\nyears" ->
           <<"D", "e", "v", " ", "5", "+", "\n", "y", "e", "a", "r", "s">>
      [] t = "" ->
           <<>>

QueryChars(q) ==
    CASE q = "Generative AI Engineer | India" ->
           <<"G", "e", "n", "e", "r", "a", "t", "i", "v", "e", " ", "A", "I", " ", "E", "n", "g", "i", "n", "e", "e", "r", " ", "|", " ", "I", "n", "d", "i", "a">>
      [] q = "Data Scientist | India" ->
           <<"D", "a", "t", "a", " ", "S", "c", "i", "e", "n", "t", "i", "s", "t", " ", "|", " ", "I", "n", "d", "i", "a">>
      [] q = "Python Developer | India" ->
           <<"P", "y", "t", "h", "o", "n", " ", "D", "e", "v", "e", "l", "o", "p", "e", "r", " ", "|", " ", "I", "n", "d", "i", "a">>
      [] q = "Computer Vision Engineer | India" ->
           <<"C", "o", "m", "p", "u", "t", "e", "r", " ", "V", "i", "s", "i", "o", "n", " ", "E", "n", "g", "i", "n", "e", "e", "r", " ", "|", " ", "I", "n", "d", "i", "a">>
      [] q = "Software Engineer Fresher | India" ->
           <<"S", "o", "f", "t", "w", "a", "r", "e", " ", "E", "n", "g", "i", "n", "e", "e", "r", " ", "F", "r", "e", "s", "h", "e", "r", " ", "|", " ", "I", "n", "d", "i", "a">>
      [] q = "Data Scientist" ->
           <<"D", "a", "t", "a", " ", "S", "c", "i", "e", "n", "t", "i", "s", "t">>
      [] q = "ML | AI | India" ->
           <<"M", "L", " ", "|", " ", "A", "I", " ", "|", " ", "I", "n", "d", "i", "a">>
      [] q = "" ->
           <<>>
      \* a string of one character, as iterating over a string gives them
      [] OTHER ->
           <<q>>

LowerLetters ==
    <<"a", "b", "c", "d", "e", "f", "g", "h", "i", "j", "k", "l", "m",
      "n", "o", "p", "q", "r", "s", "t", "u", "v", "w", "x", "y", "z">>

UpperLetters ==
    <<"A", "B", "C", "D", "E", "F", "G", "H", "I", "J", "K", "L", "M",
      "N", "O", "P", "Q", "R", "S", "T", "U", "V", "W", "X", "Y", "Z">>

Digits == {"0", "1", "2", "3", "4", "5", "6", "7", "8", "9"}

Range(s) == {s[i] : i \in DOMAIN s}

\* re.IGNORECASE: characters are compared after case folding.
Lower(c) ==
    IF c \in Range(UpperLetters)
    THEN LowerLetters[CHOOSE i \in DOMAIN UpperLetters : UpperLetters[i] = c]
    ELSE c

\* \w of Python's re: letters, digits and the underscore.
IsWordChar(c) ==
    c \in Range(LowerLetters) \cup Range(UpperLetters) \cup Digits \cup {"_"}

\* \s of Python's re and the characters str.strip() removes: the ASCII
\* whitespace (space, \t, \n, \r, \f, \v and the separators 0x1c-0x1f).
\* Whitespace beyond ASCII is not among the characters of the model.
IsSpace(c) == c \in {" ", "\t", "\n", "\r", "\f", "", "", "", "", ""}

\* \b at offset i of s (between s[i] and s[i+1]; 0 is the start, Len(s) the end).
WordBoundary(s, i) ==
    LET left  == i >= 1 /\ i <= Len(s) /\ IsWordChar(s[i])
        right == i + 1 >= 1 /\ i + 1 <= Len(s) /\ IsWordChar(s[i + 1])
    IN  left # right

\* The literal lit matches s at offsets i+1 .. i+Len(lit), ignoring case.
LiteralAt(s, i, lit) ==
    /\ i + Len(lit) <= Len(s)
    /\ \A k \in 1..Len(lit) : Lower(s[i + k]) = Lower(lit[k])

\* r'\bword\b'
WordPattern(w) == [kind |-> "word", lit |-> w, digit |-> ""]

\* r'N\+\s*years'
YearsPattern(d) == [kind |-> "years", lit |-> <<"y", "e", "a", "r", "s">>, digit |-> d]

\* CONFIG["SENIOR_KEYWORDS"]
SENIOR_KEYWORDS ==
    << WordPattern(<<"s", "e", "n", "i", "o", "r">>),
       WordPattern(<<"l", "e", "a", "d">>),
       WordPattern(<<"m", "a", "n", "a", "g", "e", "r">>),
       WordPattern(<<"p", "r", "i", "n", "c", "i", "p", "a", "l">>),
       WordPattern(<<"a", "r", "c", "h", "i", "t", "e", "c", "t">>),
       WordPattern(<<"h", "e", "a", "d">>),
       WordPattern(<<"d", "i", "r", "e", "c", "t", "o", "r">>),
       WordPattern(<<"v", "p">>),
       YearsPattern("5"),
       YearsPattern("6") >>

\* One alternative of the pattern matches s starting at offset i.
MatchAt(p, s, i) ==
    IF p.kind = "word"
    THEN /\ WordBoundary(s, i)
         /\ LiteralAt(s, i, p.lit)
         /\ WordBoundary(s, i + Len(p.lit))
    ELSE /\ LiteralAt(s, i, <<p.digit, "+">>)
         /\ \E n \in 0..Len(s) :
               /\ i + 2 + n <= Len(s)
               /\ \A k \in 1..n : IsSpace(s[i + 2 + k])
               /\ LiteralAt(s, i + 2 + n, p.lit)

\* re.search('|'.join(patterns), s, re.IGNORECASE) finds a match.
Search(patterns, s) ==
    \E i \in 0..Len(s) : \E j \in DOMAIN patterns : MatchAt(patterns[j], s, i)

\* Series.str.contains(pattern, case=False, na=False, regex=True) for one value
\* of an object column: a missing value gives na, i.e. False.
str_contains(patterns, v) ==
    IF IsNA(v) THEN FALSE ELSE Search(patterns, Chars(v))

(***************************************************************************)
(* DataFrames.                                                             *)
(***************************************************************************)
ScrapedCols == {"site", "title", "company", "location", "date_posted",
                "job_url", "job_url_direct"}

AllFields == ScrapedCols \cup {"apply_link"}

\* pd.DataFrame()
EmptyFrame == [cols |-> {}, rows |-> <<>>, title_dtype |-> "object"]

\* DataFrame.empty: some axis has length 0.
empty(d) == d.cols = {} \/ d.rows = <<>>

\* A posting as the scraper returns it, before apply_link is derived.
Posting(title, direct, url) ==
    [site |-> "linkedin", title |-> title, company |-> "acme",
     location |-> "India", date_posted |-> "2026-02-01",
     job_url |-> url, job_url_direct |-> direct, apply_link |-> None]

(***************************************************************************)
(* filter_experience                                                       *)
(***************************************************************************)
\* What a call on frames gives: the frame it returns, or the exception it
\* raises.
Kept(frame)    == [raised |-> "", frame |-> frame]
FrameRaised(e) == [raised |-> e, frame |-> EmptyFrame]

\* Lines 140-152.  df['title'] raises KeyError when the frame has no title
\* column; the .str accessor raises AttributeError on a column that is not
\* of strings (a title column that holds only NaN has dtype float64).
filter_experience(d) ==
    IF empty(d) THEN Kept(d)
    ELSE IF "title" \notin d.cols THEN FrameRaised("KeyError")
    ELSE IF d.title_dtype # "object" THEN FrameRaised("AttributeError")
    ELSE Kept([d EXCEPT !.rows =
                 SelectSeq(d.rows,
                           LAMBDA r : ~str_contains(SENIOR_KEYWORDS, r.title))])

\* ---- filter_experience on its own: a frame of up to MaxRows postings.
FilterTitles == Titles \cup {None, NaN}

FilterPosting(t) == [Posting(t, None, "u") EXCEPT !.apply_link = "u"]

\* Frames whose title column holds strings and missing values, frames
\* whose title column holds only NaN, and frames without a title column.
FilterFrames ==
    {[cols |-> AllFields, rows |-> rs, title_dtype |-> "object"] :
        rs \in SeqsUpTo({FilterPosting(t) : t \in FilterTitles}, MaxRows)}
    \cup
    {[cols |-> AllFields, rows |-> rs, title_dtype |-> "float64"] :
        rs \in SeqsUpTo({FilterPosting(NaN)}, MaxRows)}
    \cup
    {[cols |-> AllFields \ {"title"}, rows |-> rs, title_dtype |-> "object"] :
        rs \in SeqsUpTo({FilterPosting(None)}, MaxRows)}


(***************************************************************************)
(* run_scraper                                                             *)
(***************************************************************************)
RECURSIVE split(_, _)
\* str.split(sep)
split(s, sep) ==
    IF \A i \in DOMAIN s : s[i] # sep THEN <<s>>
    ELSE LET i == CHOOSE k \in DOMAIN s : s[k] = sep /\ \A j \in 1..(k - 1) : s[j] # sep
         IN  <<SubSeq(s, 1, i - 1)>> \o split(SubSeq(s, i + 1, Len(s)), sep)

RECURSIVE strip(_)
\* str.strip()
strip(s) ==
    IF s = <<>> THEN s
    ELSE IF IsSpace(s[1]) THEN strip(Tail(s))
    ELSE IF IsSpace(s[Len(s)]) THEN strip(SubSeq(s, 1, Len(s) - 1))
    ELSE s

\* Lines 180-184: derive apply_link.  jobs['job_url_direct'] raises KeyError
\* when the frame has no such column; fillna replaces missing values only.
NormalizeLinks(jobs) ==
    IF "job_url_direct" \notin jobs.cols
    THEN [ok |-> FALSE, frame |-> EmptyFrame]
    ELSE [ok |-> TRUE,
          frame |->
            [cols |-> jobs.cols \cup {"apply_link"},
             title_dtype |-> jobs.title_dtype,
             rows |->
               [i \in DOMAIN jobs.rows |->
                  LET r == jobs.rows[i]
                  IN  [r EXCEPT !.apply_link =
                         IF "job_url" \in jobs.cols
                         THEN IF IsNA(r.job_url_direct) THEN r.job_url
                              ELSE r.job_url_direct
                         ELSE r.job_url_direct]]]]

RECURSIVE FilledRows(_, _)
\* The rows of the frames in order, each over the columns of union: a row
\* holds NaN in a column its frame did not carry.
FilledRows(frames, union) ==
    IF frames = <<>> THEN <<>>
    ELSE LET f == Head(frames)
         IN  [i \in DOMAIN f.rows |->
                [c \in AllFields |->
                    IF c \in union \ f.cols THEN NaN ELSE f.rows[i][c]]]
             \o FilledRows(Tail(frames), union)

\* pd.concat(frames, ignore_index=True): the union of the columns, the rows
\* in order.  The title column is float64 when every frame that carries it
\* has it float64, and object otherwise.
concat(frames) ==
    LET union == UNION {frames[k].cols : k \in DOMAIN frames}
        withTitle == {k \in DOMAIN frames : "title" \in frames[k].cols}
    IN  IF frames = <<>> THEN EmptyFrame
        ELSE [cols |-> union,
              rows |-> FilledRows(frames, union),
              title_dtype |->
                 IF withTitle # {}
                    /\ \A k \in withTitle : frames[k].title_dtype = "float64"
                 THEN "float64" ELSE "object"]

\* Lines 192-196.
CombineAndFilter(jobs) ==
    IF jobs = <<>> THEN Kept(EmptyFrame)
    ELSE filter_experience(concat(jobs))

\* ---- the scraper's answers
\* A frame as scrape_jobs returns it: the columns in cs, the other fields None.
ScrapedFrame(cs, postings) ==
    [cols |-> cs,
     title_dtype |-> IF postings # <<>> /\ \A i \in DOMAIN postings : postings[i].title = NaN
                     THEN "float64" ELSE "object",
     rows |-> [i \in DOMAIN postings |->
                 [f \in AllFields |-> IF f \in cs THEN postings[i][f] ELSE None]]]

ScrapeFrames ==
    { ScrapedFrame(ScrapedCols, <<Posting("Data Scientist", "X", "Y"),
                                  Posting("Team Leader", None, "Y2")>>),
      ScrapedFrame(ScrapedCols, <<Posting("Senior Data Scientist", "X3", "Y3"),
                                  Posting("Headless Dev", "", "Y4")>>),
      ScrapedFrame(ScrapedCols, <<Posting("Dev 4+ years", None, None)>>),
      ScrapedFrame(ScrapedCols, <<>>),
      ScrapedFrame(ScrapedCols \ {"job_url"},
                   <<Posting("Data Scientist", "X", None),
                     Posting("Dev 5 years", None, None)>>),
      ScrapedFrame(ScrapedCols \ {"job_url_direct"},
                   <<Posting("Data Scientist", None, "Y")>>),
      ScrapedFrame(ScrapedCols, <<Posting(NaN, "X5", "Y5")>>),
      ScrapedFrame(ScrapedCols \ {"title"}, <<Posting(None, "X6", "Y6")>>),
      EmptyFrame }

\* scrape_jobs either raises or returns a frame.
ScrapeResponses ==
    {[ok |-> FALSE, frame |-> EmptyFrame]} \cup
    {[ok |-> TRUE, frame |-> f] : f \in ScrapeFrames}

NotIssued == [ok |-> FALSE, frame |-> EmptyFrame]

QueryStrings == {"Data Scientist | India", "Data Scientist", "ML | AI | India"}

\* The queries whose str.split("|") gives exactly two fields (line 168).
TwoFields(q) == Len(split(QueryChars(q), "|")) = 2

\* An iteration that keeps the scraper's frame when its links cannot be
\* derived.
ScrapeOneKeepsFrame(q, resp) ==
    LET parts == split(QueryChars(q), "|")
        norm  == NormalizeLinks(resp.frame)
    IN  IF Len(parts) # 2
        THEN [called |-> FALSE, failed |-> TRUE, jobs |-> <<>>]
        ELSE IF ~resp.ok
        THEN [called |-> TRUE, failed |-> TRUE, jobs |-> <<>>]
        ELSE IF ~norm.ok
        THEN [called |-> TRUE, failed |-> TRUE, jobs |-> <<resp.frame>>]
        ELSE [called |-> TRUE, failed |-> FALSE, jobs |-> <<norm.frame>>]

\* One iteration of the loop of lines 166-190 for query q, the scraper
\* answering resp when it is called: what is appended to all_jobs (if
\* anything), and whether the iteration ended in the except branch.
ScrapeOne(q, resp) ==
    LET parts == split(QueryChars(q), "|")
        norm  == NormalizeLinks(resp.frame)
    IN  IF Len(parts) # 2
        THEN [called |-> FALSE, failed |-> TRUE, jobs |-> <<>>]
        ELSE IF ~resp.ok \/ ~norm.ok
        THEN [called |-> TRUE, failed |-> TRUE, jobs |-> <<>>]
        ELSE [called |-> TRUE, failed |-> FALSE, jobs |-> <<norm.frame>>]

\* An iteration whose query does not split into two fields: ValueError,
\* caught; scrape_jobs is not called.
ScrapeMalformed ==
    /\ spc = "loop"
    /\ qi <= Len(queries)
    /\ ~TwoFields(queries[qi])
    /\ warned' = Append(warned, qi)
    /\ answers' = Append(answers, [called |-> FALSE, resp |-> NotIssued])
    /\ qi' = qi + 1
    /\ UNCHANGED <<queries, all_jobs, issued, sOut, spc, filterVars, queryVars, sheetVars,
                 mainVars>>

\* An iteration that calls scrape_jobs, which raises or returns a frame.
ScrapeQuery ==
    /\ spc = "loop"
    /\ qi <= Len(queries)
    /\ TwoFields(queries[qi])
    /\ \E resp \in ScrapeResponses :
          LET parts == split(QueryChars(queries[qi]), "|")
              one   == ScrapeOne(queries[qi], resp)
          IN  /\ issued' = Append(issued, [search_term |-> strip(parts[1]),
                                           location |-> strip(parts[2])])
              /\ answers' = Append(answers, [called |-> TRUE, resp |-> resp])
              /\ all_jobs' = all_jobs \o one.jobs
              /\ warned' = IF one.failed THEN Append(warned, qi) ELSE warned
    /\ qi' = qi + 1
    /\ UNCHANGED <<queries, sOut, spc, filterVars, queryVars, sheetVars,
                 mainVars>>

\* Lines 192-196, after the loop.  An exception of filter_experience is
\* raised outside the try of the loop and leaves run_scraper; spc names it.
ScrapeReturn ==
    /\ spc = "loop"
    /\ qi > Len(queries)
    /\ LET r == CombineAndFilter(all_jobs)
       IN  /\ sOut' = r.frame
           /\ spc' = IF r.raised = "" THEN "done" ELSE r.raised
    /\ UNCHANGED <<queries, qi, answers, all_jobs, issued, warned, filterVars, queryVars, sheetVars,
                 mainVars>>

(***************************************************************************)
(* get_search_queries                                                      *)
(*                                                                         *)
(* The model's reply is a sequence of chunks: code-fence markers, prose,   *)
(* and at most one Python expression, given by its syntax tree.  Python    *)
(* values are records [t, s, items].                                       *)
(***************************************************************************)
PyStr(s)  == [t |-> "str",  s |-> s, items |-> <<>>]
PyInt(s)  == [t |-> "int",  s |-> s, items |-> <<>>]
PyList(xs) == [t |-> "list", s |-> "", items |-> xs]
\* Expressions that are not literals: an undefined name, a call of exit().
PyName(s) == [t |-> "name", s |-> s, items |-> <<>>]
PyExit    == [t |-> "exit", s |-> "exit()", items |-> <<>>]
\* Text that is not a Python expression.
Prose     == [t |-> "prose", s |-> "Here are your queries", items |-> <<>>]
\* The markers ```python and ``` of a fenced code block.
FencePython == [t |-> "fence_python", s |-> "", items |-> <<>>]
Fence       == [t |-> "fence", s |-> "", items |-> <<>>]

\* Lines 122-128: the fallback list.
FallbackQueries ==
    PyList(<< PyStr("Generative AI Engineer | India"),
              PyStr("Data Scientist | India"),
              PyStr("Python Developer | India"),
              PyStr("Computer Vision Engineer | India"),
              PyStr("Software Engineer Fresher | India") >>)

Returned(v) == [raised |-> "", value |-> v]
Raised(e)   == [raised |-> e, value |-> PyList(<<>>)]

\* Exceptions that "except Exception" (line 120) catches; SystemExit derives
\* from BaseException and is not among them.
CaughtExceptions ==
    {"PdfReadError", "APIError", "AttributeError", "SyntaxError", "NameError"}

\* response.text.replace("```python", "").replace("```", "").strip()
CleanText(chunks) ==
    SelectSeq(chunks, LAMBDA c : c.t \notin {"fence_python", "fence"})

RECURSIVE EvalItems(_)
\* The elements of a list display are evaluated left to right; the first
\* one that raises ends the evaluation.
EvalItems(xs) ==
    IF xs = <<>> THEN Returned(PyList(<<>>))
    ELSE LET x == Head(xs)
         IN  IF x.t = "name" THEN Raised("NameError")
             ELSE IF x.t = "exit" THEN Raised("SystemExit")
             ELSE LET rest == EvalItems(Tail(xs))
                  IN  IF rest.raised # "" THEN rest
                      ELSE Returned(PyList(<<x>> \o rest.value.items))

\* eval(clean_text), line 118.
Eval(chunks) ==
    IF Len(chunks) # 1 \/ chunks[1].t = "prose" THEN Raised("SyntaxError")
    ELSE LET e == chunks[1]
         IN  CASE e.t = "list" -> EvalItems(e.items)
               [] e.t = "name" -> Raised("NameError")
               [] e.t = "exit" -> Raised("SystemExit")
               [] OTHER        -> Returned(e)

\* Lines 96-128.  inp.extract / inp.model say whether the resume extractor and
\* the model call succeeded; inp.hasText whether response.text is a string.
get_search_queries(inp) ==
    LET r == IF ~inp.extract THEN Raised("PdfReadError")
             ELSE IF ~inp.model THEN Raised("APIError")
             ELSE IF ~inp.hasText THEN Raised("AttributeError")
             ELSE Eval(CleanText(inp.text))
    IN  IF r.raised \in CaughtExceptions THEN Returned(FallbackQueries) ELSE r

\* ---- the replies
Atoms == {PyStr("Data Scientist | India"), PyStr("Python Developer | India"),
          PyInt("7"), PyName("queries"), PyExit}

Expressions == Atoms \cup {PyList(xs) : xs \in SeqsUpTo(Atoms, MaxItems)}

ReplyTexts ==
    {<<>>, <<Prose>>}
    \cup {<<e>> : e \in Expressions}
    \cup {<<FencePython, e, Fence>> : e \in Expressions}
    \cup {<<Fence, e, Fence>> : e \in Expressions}
    \cup {<<Prose, FencePython, e, Fence>> : e \in Expressions}

QueryInputs ==
    {[extract |-> FALSE, model |-> FALSE, hasText |-> FALSE, text |-> <<>>],
     [extract |-> TRUE,  model |-> FALSE, hasText |-> FALSE, text |-> <<>>],
     [extract |-> TRUE,  model |-> TRUE,  hasText |-> FALSE, text |-> <<>>]}
    \cup {[extract |-> TRUE, model |-> TRUE, hasText |-> TRUE, text |-> x] :
             x \in ReplyTexts}


(***************************************************************************)
(* _get_sheet_client and save_to_sheet                                     *)
(*                                                                         *)
(* The spreadsheet store: sheetExists says whether the spreadsheet is      *)
(* there, table is the rows of sheet1, each a sequence of cells.  Every    *)
(* call                                                                    *)
(* to the store may raise.  pc is the position in save_to_sheet; each      *)
(* action is one call to the store with the code around it.                *)
(***************************************************************************)
max_retries == 3                \* line 65

APPLY_LINK_INDEX == 5           \* line 220: row[5]

\* Line 211.
cols == <<"site", "title", "company", "location", "date_posted", "apply_link">>

\* Line 228.
header == cols \o <<"Applied?">>

\* str(v) of DataFrame.astype(str).
astype_str(v) == IF v = None THEN "None" ELSE IF v = NaN THEN "nan" ELSE v

\* Lines 211-213: the listing columns the frame carries, in the order of
\* cols, every cell as text.
Prepare(d) ==
    LET available_cols == SelectSeq(cols, LAMBDA c : c \in d.cols)
    IN  [colseq |-> available_cols,
         rows |-> [i \in DOMAIN d.rows |->
                     [j \in DOMAIN available_cols |->
                        astype_str(d.rows[i][available_cols[j]])]]]

\* Line 220: the values at index 5 of the rows under the first one.
existing_links(existing_data) ==
    {existing_data[i][APPLY_LINK_INDEX + 1] :
        i \in {k \in 2..Len(existing_data) : Len(existing_data[k]) > APPLY_LINK_INDEX}}

ColumnIndex(colseq, c) == CHOOSE j \in DOMAIN colseq : colseq[j] = c

\* Line 221: df[~df['apply_link'].isin(existing_links)]
DropExisting(f, links) ==
    [f EXCEPT !.rows =
        SelectSeq(f.rows, LAMBDA r : r[ColumnIndex(f.colseq, "apply_link")] \notin links)]

\* Lines 240-242: df['Applied?'] = "FALSE"; df.values.tolist()
RowsToAppend(f) == [i \in DOMAIN f.rows |-> Append(f.rows[i], "FALSE")]

\* A check of the columns alone.
SkipsEmptyNoColumns(d) == d.cols = {}

\* Line 202.
SkipsEmpty(d) == empty(d)

\* A loop that allows one attempt too many.
RetriesAfterOffByOne(n) == n - 1 < max_retries

\* Line 83: after a failed attempt (the n-th, counted from 1) the loop sleeps
\* and tries again; otherwise it gives up.
RetriesAfter(n) == n - 1 < max_retries - 1

\* Line 218.
HasDataRows(existing_data) == Len(existing_data) > 1

Msg(m, n) == [msg |-> m, n |-> n]

\* ---- the listing sets handed to save_to_sheet
Listing(title, link) ==
    [Posting(title, link, link) EXCEPT !.apply_link = link]

Frame(cs, listings) ==
    [cols |-> cs,
     title_dtype |-> "object",
     rows |-> [i \in DOMAIN listings |->
                 [f \in AllFields |-> IF f \in cs THEN listings[i][f] ELSE None]]]

\* Two postings with the same link, as two queries return them, and frames
\* that lack one of the listing columns are among them.
SheetFrames ==
    { EmptyFrame,
      Frame(AllFields, <<>>),
      Frame(AllFields, <<Listing("Data Scientist", "a")>>),
      Frame(AllFields, <<Listing("Team Leader", "b")>>),
      Frame(AllFields, <<Listing("Data Scientist", "a"), Listing("Team Leader", "b")>>),
      Frame(AllFields, <<Listing("Data Scientist", "a"), Listing("Data Scientist", "a")>>),
      Frame(AllFields, <<Listing("Team Leader", "b"), Listing("Headless Dev", "a")>>),
      Frame(AllFields \ {"site"}, <<Listing("Data Scientist", "a")>>),
      Frame(AllFields \ {"site"},
            <<Listing("Data Scientist", "a"), Listing("Team Leader", "b")>>) }

\* Tables earlier runs have left behind.
InitialTables ==
    {<<>>, <<header>>,
     <<header>> \o RowsToAppend(Prepare(Frame(AllFields,
                                               <<Listing("Data Scientist", "a")>>)))}

NoRun == [valid |-> FALSE, input |-> EmptyFrame, failed |-> {}]


\* What no step inside a run changes.
runFixed == <<fmtAvail, input, tableBefore, prev, runs, filterVars, queryVars, scrapeVars,
              mainVars>>

\* The run ends (save_to_sheet returns) after logging m.
EndRun(m) ==
    /\ log' = Append(log, m)
    /\ pc' = "done"

\* Lines 198-208: save_to_sheet(d) is called.
StartRun ==
    /\ pc \in {"idle", "done"}
    /\ runs < MaxRuns
    /\ \E d \in SheetFrames :
          /\ input' = d
          /\ IF SkipsEmpty(d)
             THEN /\ log' = <<Msg("No jobs found to save.", 0)>>
                  /\ pc' = "done"
             ELSE /\ log' = <<>>
                  /\ pc' = "connect"
    /\ runs' = runs + 1
    /\ prev' = IF pc = "done"
               THEN [valid |-> TRUE, input |-> input, failed |-> failed]
               ELSE prev
    /\ tableBefore' = table
    /\ df' = Prepare(EmptyFrame)
    /\ attempt' = 0
    /\ calls' = <<>>
    /\ failed' = {}
    /\ UNCHANGED <<sheetExists, table, fmtAvail, filterVars, queryVars, scrapeVars,
                   mainVars>>

\* Line 76: what the attempt logs when open raised SpreadsheetNotFound.
SheetNotFound == <<Msg("Sheet not found. Creating new sheet.", 0)>>

\* Lines 81-87: an attempt raised, having logged the records of pre.
AttemptFailed(pre) ==
    /\ attempt' = attempt + 1
    /\ calls' = Append(calls, "connect")
    /\ failed' = failed \cup {"connect"}
    /\ IF RetriesAfter(attempt + 1)
       THEN /\ log' = log \o pre
                          \o <<Msg("Connection attempt failed", attempt + 1)>>
            /\ pc' = "connect"
       ELSE /\ log' = log \o pre
                          \o <<Msg("Connection attempt failed", attempt + 1),
                               Msg("Google Sheets connection failed", max_retries)>>
            /\ pc' = "done"
    /\ UNCHANGED <<table, df>>

\* Lines 74, 79 and 206-213: an attempt returned the worksheet, having
\* logged the records of pre.
AttemptSucceeded(pre) ==
    /\ attempt' = attempt + 1
    /\ calls' = Append(calls, "connect")
    /\ df' = Prepare(input)
    /\ pc' = "read"
    /\ log' = log \o pre
    /\ UNCHANGED <<table, failed>>

\* Lines 68-87: one attempt of _get_sheet_client.  Reading the credentials
\* or authorize raised, or open raised something other than
\* SpreadsheetNotFound; the store is as it was.
ConnectFails ==
    /\ pc = "connect"
    /\ UNCHANGED runFixed
    /\ AttemptFailed(<<>>)
    /\ UNCHANGED sheetExists

\* open raised SpreadsheetNotFound (line 76 logs it), then create raised;
\* the store is as it was.
ConnectCreateFails ==
    /\ pc = "connect"
    /\ UNCHANGED runFixed
    /\ ~sheetExists
    /\ AttemptFailed(SheetNotFound)
    /\ UNCHANGED sheetExists

\* open returned the spreadsheet.
ConnectOpens ==
    /\ pc = "connect"
    /\ UNCHANGED runFixed
    /\ sheetExists
    /\ AttemptSucceeded(<<>>)
    /\ UNCHANGED sheetExists

\* open raised SpreadsheetNotFound; create and insert_permission succeeded.
ConnectCreates ==
    /\ pc = "connect"
    /\ UNCHANGED runFixed
    /\ ~sheetExists
    /\ sheetExists' = TRUE
    /\ AttemptSucceeded(SheetNotFound)

\* The spreadsheet was created, then insert_permission raised.
ConnectPermissionFails ==
    /\ pc = "connect"
    /\ UNCHANGED runFixed
    /\ ~sheetExists
    /\ sheetExists' = TRUE
    /\ AttemptFailed(SheetNotFound)

\* Lines 216-225 and 235-237: get_all_values and the duplicate check.
ReadFails ==
    /\ pc = "read"
    /\ UNCHANGED runFixed
    /\ calls' = Append(calls, "get_all_values")
    /\ failed' = failed \cup {"read"}
    /\ EndRun(Msg("Error reading existing data", 0))
    /\ UNCHANGED <<sheetExists, table, df, attempt>>

ReadExisting ==
    /\ pc = "read"
    /\ UNCHANGED runFixed
    /\ calls' = Append(calls, "get_all_values")
    /\ LET existing_data == table
       IN  IF HasDataRows(existing_data)
           THEN IF "apply_link" \notin Range(df.colseq)
                THEN /\ EndRun(Msg("Error reading existing data", 0))
                     /\ UNCHANGED df
                ELSE LET kept == DropExisting(df, existing_links(existing_data))
                     IN  /\ df' = kept
                         /\ IF kept.rows = <<>>
                            THEN EndRun(Msg("All jobs already exist in the sheet.", 0))
                            ELSE pc' = "append" /\ UNCHANGED log
           ELSE pc' = "header" /\ UNCHANGED <<df, log>>
    /\ UNCHANGED <<sheetExists, table, attempt, failed>>

\* Lines 227-229: the header row.
HeaderFails ==
    /\ pc = "header"
    /\ UNCHANGED runFixed
    /\ calls' = Append(calls, "append_row")
    /\ failed' = failed \cup {"header"}
    /\ EndRun(Msg("Error reading existing data", 0))
    /\ UNCHANGED <<sheetExists, table, df, attempt>>

HeaderWritten ==
    /\ pc = "header"
    /\ UNCHANGED runFixed
    /\ calls' = Append(calls, "append_row")
    /\ table' = Append(table, header)
    /\ pc' = IF fmtAvail THEN "format" ELSE "append"
    /\ UNCHANGED <<sheetExists, df, attempt, failed, log>>

\* Lines 230-237: bold header, inside the try of the duplicate check.
FormatFails ==
    /\ pc = "format"
    /\ UNCHANGED runFixed
    /\ calls' = Append(calls, "format_cell_range")
    /\ failed' = failed \cup {"format"}
    /\ EndRun(Msg("Error reading existing data", 0))
    /\ UNCHANGED <<sheetExists, table, df, attempt>>

FormatDone ==
    /\ pc = "format"
    /\ UNCHANGED runFixed
    /\ calls' = Append(calls, "format_cell_range")
    /\ pc' = "freeze"
    /\ UNCHANGED <<sheetExists, table, df, attempt, failed, log>>

FreezeFails ==
    /\ pc = "freeze"
    /\ UNCHANGED runFixed
    /\ calls' = Append(calls, "freeze")
    /\ failed' = failed \cup {"freeze"}
    /\ EndRun(Msg("Error reading existing data", 0))
    /\ UNCHANGED <<sheetExists, table, df, attempt>>

FreezeDone ==
    /\ pc = "freeze"
    /\ UNCHANGED runFixed
    /\ calls' = Append(calls, "freeze")
    /\ pc' = "append"
    /\ UNCHANGED <<sheetExists, table, df, attempt, failed, log>>

\* Lines 240-243 and 258-259: the bulk append.
AppendFails ==
    /\ pc = "append"
    /\ UNCHANGED runFixed
    /\ calls' = Append(calls, "append_rows")
    /\ failed' = failed \cup {"append"}
    /\ EndRun(Msg("Failed to append data", 0))
    /\ UNCHANGED <<sheetExists, table, df, attempt>>

AppendDone ==
    /\ pc = "append"
    /\ UNCHANGED runFixed
    /\ calls' = Append(calls, "append_rows")
    /\ table' = table \o RowsToAppend(df)
    /\ log' = Append(log, Msg("Successfully appended new jobs.", Len(df.rows)))
    /\ pc' = IF fmtAvail THEN "recount" ELSE "done"
    /\ UNCHANGED <<sheetExists, df, attempt, failed>>

\* Lines 246-259: the checkboxes, inside the try of the append.
RecountFails ==
    /\ pc = "recount"
    /\ UNCHANGED runFixed
    /\ calls' = Append(calls, "get_all_values")
    /\ failed' = failed \cup {"recount"}
    /\ EndRun(Msg("Failed to append data", 0))
    /\ UNCHANGED <<sheetExists, table, df, attempt>>

RecountDone ==
    /\ pc = "recount"
    /\ UNCHANGED runFixed
    /\ calls' = Append(calls, "get_all_values")
    /\ pc' = "validate"
    /\ UNCHANGED <<sheetExists, table, df, attempt, failed, log>>

ValidateFails ==
    /\ pc = "validate"
    /\ UNCHANGED runFixed
    /\ calls' = Append(calls, "set_data_validation")
    /\ failed' = failed \cup {"validate"}
    /\ EndRun(Msg("Failed to append data", 0))
    /\ UNCHANGED <<sheetExists, table, df, attempt>>

ValidateDone ==
    /\ pc = "validate"
    /\ UNCHANGED runFixed
    /\ calls' = Append(calls, "set_data_validation")
    /\ EndRun(Msg("Checkbox validation applied.", 0))
    /\ UNCHANGED <<sheetExists, table, df, attempt, failed>>

(***************************************************************************)
(* Specifications.  Each function is exercised on its own inputs; the      *)
(* variables of the other functions stay at their initial values.          *)
(***************************************************************************)
FilterIdle ==
    /\ fIn = EmptyFrame
    /\ fOut = Kept(EmptyFrame)
    /\ fpc = "done"

QueryIdle ==
    /\ gIn = [extract |-> FALSE, model |-> FALSE, hasText |-> FALSE, text |-> <<>>]
    /\ gOut = Returned(PyList(<<>>))
    /\ gpc = "done"

ScrapeIdle ==
    /\ queries = <<>>
    /\ qi = 1
    /\ answers = <<>>
    /\ all_jobs = <<>>
    /\ issued = <<>>
    /\ warned = <<>>
    /\ sOut = EmptyFrame
    /\ spc = "done"

SheetIdle ==
    /\ sheetExists = FALSE
    /\ table = <<>>
    /\ fmtAvail = FALSE
    /\ pc = "off"
    /\ input = EmptyFrame
    /\ df = Prepare(EmptyFrame)
    /\ attempt = 0
    /\ log = <<>>
    /\ calls = <<>>
    /\ failed = {}
    /\ tableBefore = <<>>
    /\ prev = NoRun
    /\ runs = 0

MainIdle == mpc = "off"

\* ---- filter_experience on a frame of up to MaxRows postings
FilterInit ==
    /\ fIn \in FilterFrames
    /\ fOut = Kept(EmptyFrame)
    /\ fpc = "start"
    /\ QueryIdle /\ ScrapeIdle /\ SheetIdle /\ MainIdle

FilterExperience ==
    /\ fpc = "start"
    /\ fOut' = filter_experience(fIn)
    /\ fpc' = "done"
    /\ UNCHANGED <<fIn, queryVars, scrapeVars, sheetVars, mainVars>>

FilterNext == FilterExperience

FilterSpec == FilterInit /\ [][FilterNext]_vars

\* ---- get_search_queries on every reply of QueryInputs
QueryInit ==
    /\ gIn \in QueryInputs
    /\ gOut = Returned(PyList(<<>>))
    /\ gpc = "start"
    /\ FilterIdle /\ ScrapeIdle /\ SheetIdle /\ MainIdle

GetSearchQueries ==
    /\ gpc = "start"
    /\ gOut' = get_search_queries(gIn)
    /\ gpc' = "done"
    /\ UNCHANGED <<gIn, filterVars, scrapeVars, sheetVars, mainVars>>

QueryNext == GetSearchQueries

QuerySpec == QueryInit /\ [][QueryNext]_vars

\* ---- run_scraper on up to MaxQueries queries
ScrapeInit ==
    /\ queries \in SeqsUpTo(QueryStrings, MaxQueries)
    /\ qi = 1
    /\ answers = <<>>
    /\ all_jobs = <<>>
    /\ issued = <<>>
    /\ warned = <<>>
    /\ sOut = EmptyFrame
    /\ spc = "loop"
    /\ FilterIdle /\ QueryIdle /\ SheetIdle /\ MainIdle

ScrapeNext == ScrapeMalformed \/ ScrapeQuery \/ ScrapeReturn

ScrapeSpec == ScrapeInit /\ [][ScrapeNext]_vars

\* ---- up to MaxRuns runs of save_to_sheet against one store
SheetInit ==
    /\ sheetExists \in BOOLEAN
    /\ table \in (IF sheetExists THEN InitialTables ELSE {<<>>})
    /\ fmtAvail \in BOOLEAN
    /\ pc = "idle"
    /\ input = EmptyFrame
    /\ df = Prepare(EmptyFrame)
    /\ attempt = 0
    /\ log = <<>>
    /\ calls = <<>>
    /\ failed = {}
    /\ tableBefore = <<>>
    /\ prev = NoRun
    /\ runs = 0
    /\ FilterIdle /\ QueryIdle /\ ScrapeIdle /\ MainIdle

SheetNext ==
    \/ StartRun
    \/ ConnectFails \/ ConnectOpens \/ ConnectCreateFails
    \/ ConnectCreates \/ ConnectPermissionFails
    \/ ReadFails \/ ReadExisting
    \/ HeaderFails \/ HeaderWritten
    \/ FormatFails \/ FormatDone \/ FreezeFails \/ FreezeDone
    \/ AppendFails \/ AppendDone
    \/ RecountFails \/ RecountDone \/ ValidateFails \/ ValidateDone

SheetSpec == SheetInit /\ [][SheetNext]_vars

(***************************************************************************)
(* Outcomes of a save_to_sheet run, as its log reports them.               *)
(***************************************************************************)
HasMsg(m) == \E i \in DOMAIN log : log[i].msg = m

Skipped       == HasMsg("No jobs found to save.")
ConnectFailed == HasMsg("Google Sheets connection failed")
Deduplicated  == HasMsg("All jobs already exist in the sheet.")
ReadFailed    == HasMsg("Error reading existing data")
WriteFailed   == HasMsg("Failed to append data")
Written(n)    == \E i \in DOMAIN log : log[i] = Msg("Successfully appended new jobs.", n)

ConnectFailures ==
    Cardinality({i \in DOMAIN log : log[i].msg = "Connection attempt failed"})

Called(c) == \E i \in DOMAIN calls : calls[i] = c

\* The required steps: connect, read, and the two appends.
RequiredSteps == {"connect", "read", "header", "append"}

\* Rows of the table that are listing rows with the columns of the header.
DataRowIndexes ==
    {i \in 2..Len(table) : Len(table[i]) = Len(header) /\ table[i] # header}

(***************************************************************************)
(* C1.  Running save_to_sheet twice in a row with the same listing set,    *)
(* all connect, read and append calls succeeding, the second run appends   *)
(* nothing and ends as Deduplicated(all).  Stated for a listing set that   *)
(* is not empty and carries the six listing columns.                       *)
(***************************************************************************)
C1_SecondRunDeduplicatesAll ==
    ( /\ pc = "done"
      /\ prev.valid
      /\ prev.input = input
      /\ ~empty(input)
      /\ input.cols = AllFields
      /\ prev.failed \cap RequiredSteps = {}
      /\ failed \cap RequiredSteps = {} )
    => (table = tableBefore /\ Deduplicated)

(***************************************************************************)
(* C2.  No two data rows of the table hold the same apply_link value       *)
(* (the cell at ordinal 5).                                                *)
(***************************************************************************)
C2_ApplyLinkIsUniqueKey ==
    \A i, j \in DataRowIndexes :
        i # j => table[i][APPLY_LINK_INDEX + 1] # table[j][APPLY_LINK_INDEX + 1]

(***************************************************************************)
(* C3.  The connect step is tried at most 3 times in a run.  Three         *)
(* failures end the run as ConnectFailed, which is reported only then,     *)
(* and the run has made no call other than the three connect attempts and  *)
(* left the table alone.  Two failures and then a success, the later       *)
(* calls succeeding, end the run as Written(n) for the n surviving         *)
(* listings, or as Deduplicated(all) when none survives.                   *)
(***************************************************************************)
C3_ConnectRetryBounded ==
    /\ attempt <= 3
    /\ ConnectFailures <= 3
    /\ ConnectFailed => (pc = "done" /\ ConnectFailures = 3)
    /\ (pc = "done" /\ ConnectFailures = 3) =>
          /\ ConnectFailed
          /\ calls = <<"connect", "connect", "connect">>
          /\ table = tableBefore
    /\ (pc = "done" /\ ConnectFailures = 2 /\ failed = {"connect"}) =>
          /\ attempt = 3
          /\ IF df.rows = <<>> THEN Deduplicated
             ELSE /\ Written(Len(df.rows))
                  /\ SubSeq(table, Len(table) - Len(df.rows) + 1, Len(table))
                        = RowsToAppend(df)

C3_Witness ==
    /\ pc = "done"
    /\ ConnectFailures = 2
    /\ failed = {"connect"}
    /\ Written(2)

(***************************************************************************)
(* C4.  A run on an empty listing set ends as Skipped, has made no call    *)
(* to the store and leaves the table unchanged.                            *)
(***************************************************************************)
C4_EmptyInputSkips ==
    (pc = "done" /\ empty(input)) =>
        /\ log = <<Msg("No jobs found to save.", 0)>>
        /\ calls = <<>>
        /\ attempt = 0
        /\ table = tableBefore

C4_Witness ==
    /\ pc = "done"
    /\ input = Frame(AllFields, <<>>)
    /\ Skipped
    /\ Len(table) > 1

(***************************************************************************)
(* C5.  A failure of the header formatting (bold, freeze) does not         *)
(* escalate: the run goes on to the bulk append and does not end as        *)
(* ReadFailed.                                                             *)
(***************************************************************************)
C5_FormattingFailureSwallowed ==
    (pc = "done" /\ failed \cap {"format", "freeze"} # {}) =>
        (Called("append_rows") /\ ~ReadFailed)

(***************************************************************************)
(* C6.  Once the bulk append of n rows has succeeded, a failure in the     *)
(* checkbox step leaves the run reported as Written(n) and not as          *)
(* WriteFailed, and the n rows stay in the table.                          *)
(***************************************************************************)
C6_CheckboxFailureKeepsWritten ==
    (pc = "done" /\ failed \cap {"recount", "validate"} # {}) =>
        /\ Written(Len(df.rows))
        /\ ~WriteFailed
        /\ table = tableBefore \o (IF Called("append_row") THEN <<header>> ELSE <<>>)
                               \o RowsToAppend(df)

(***************************************************************************)
(* C7.  When the extractor, the model call or the parsing of the reply     *)
(* fails, and whenever the reply is not a literal list of strings,         *)
(* get_search_queries returns the fallback list; it never raises.          *)
(***************************************************************************)
IsListOfStrings(chunks) ==
    /\ Len(chunks) = 1
    /\ chunks[1].t = "list"
    /\ \A k \in DOMAIN chunks[1].items : chunks[1].items[k].t = "str"

GenerationFails(inp) ==
    \/ ~inp.extract
    \/ ~inp.model
    \/ ~inp.hasText
    \/ ~IsListOfStrings(CleanText(inp.text))

C7_FallbackOnGenerationFailure ==
    gpc = "done" =>
        /\ gOut.raised = ""
        /\ GenerationFails(gIn) => gOut.value = FallbackQueries

(***************************************************************************)
(* C8.  run_scraper calls the scraper for every well-formed query whatever *)
(* happened to the queries before it, and the combined listings are those  *)
(* of exactly the queries whose scrape call returned, in the order of the  *)
(* queries and, within a query, of the scraper.                            *)
(***************************************************************************)
WellFormed(q) ==
    Cardinality({i \in DOMAIN QueryChars(q) : QueryChars(q)[i] = "|"}) = 1

\* The postings of a frame, the derived apply_link left out.
PostingsOf(rows) ==
    [i \in DOMAIN rows |->
        [c \in AllFields |->
            IF c = "apply_link" \/ IsNA(rows[i][c]) THEN None ELSE rows[i][c]]]

RECURSIVE ReturnedPostings(_)
\* The postings the scraper returned, over the answers in order.
ReturnedPostings(as) ==
    IF as = <<>> THEN <<>>
    ELSE (IF Head(as).called /\ Head(as).resp.ok
          THEN PostingsOf(Head(as).resp.frame.rows) ELSE <<>>)
         \o ReturnedPostings(Tail(as))

C8_PerQueryIsolation ==
    spc = "done" =>
        /\ Len(answers) = Len(queries)
        /\ \A i \in DOMAIN queries : answers[i].called = WellFormed(queries[i])
        /\ Len(issued) = Cardinality({i \in DOMAIN queries : WellFormed(queries[i])})
        /\ PostingsOf(concat(all_jobs).rows) = ReturnedPostings(answers)

(***************************************************************************)
(* C9.  On a frame with a title column filter_experience does not raise    *)
(* and returns the rows of its input whose title matches no seniority      *)
(* pattern, in their order: titles that match are removed, the others,     *)
(* the empty and the missing title among them, kept.                       *)
(***************************************************************************)
\* The titles of Titles that Python's re finds a seniority pattern in.
SeniorTitles ==
    {"Senior Data Scientist", "Engineering Manager", "ML Engineer (5+ years)",
     "SENIOR dev", "Tech-Lead", "VP Sales", "Dev 6+years", "Dev 15+  Years",
     "Dev 5+\nyears"}

C9_FilterKeepsExactlyNonSenior ==
    (fpc = "done" /\ "title" \in fIn.cols) =>
        /\ fOut.raised = ""
        /\ fOut.frame.cols = fIn.cols
        /\ fOut.frame.rows =
              SelectSeq(fIn.rows, LAMBDA r : r.title \notin SeniorTitles)

(***************************************************************************)
(* C10.  A posting with job_url = Y gets apply_link = X when its           *)
(* job_url_direct is X, present and not empty, and apply_link = Y when its *)
(* job_url_direct is missing or empty.                                     *)
(***************************************************************************)
ExpectedLink(r) ==
    IF r.job_url_direct \notin {None, NaN, ""} THEN r.job_url_direct ELSE r.job_url

C10_ApplyLinkNormalized ==
    \A k \in DOMAIN all_jobs : \A i \in DOMAIN all_jobs[k].rows :
        LET r == all_jobs[k].rows[i]
        IN  ~IsNA(r.job_url) => r.apply_link = ExpectedLink(r)

(***************************************************************************)
(* __main__ (lines 261-270): get_search_queries, run_scraper on what it    *)
(* returned, save_to_sheet on what that returned, "Process completed.".    *)
(* An exception no handler catches ends the program; mpc then names it.    *)
(***************************************************************************)
Faults == {"SystemExit", "TypeError", "KeyError", "AttributeError"}

\* Line 166, for query in queries: a list gives its elements, a string its
\* characters, each a string of length one; an int is not iterable
\* (TypeError, raised outside every try).
Iterate(v) ==
    IF v.t = "list" THEN [ok |-> TRUE, items |-> v.items]
    ELSE IF v.t = "str"
    THEN [ok |-> TRUE,
          items |-> [i \in DOMAIN QueryChars(v.s) |-> PyStr(QueryChars(v.s)[i])]]
    ELSE [ok |-> FALSE, items |-> <<>>]

\* The elements the scraper is called for: strings that split in two.
CallsScraper(item) == item.t = "str" /\ TwoFields(item.s)

\* One iteration for an element of the list.  An element that is not a
\* string has no split (AttributeError, caught at line 189).
ItemScrapeOne(item, resp) ==
    IF item.t = "str" THEN ScrapeOne(item.s, resp)
    ELSE [called |-> FALSE, failed |-> TRUE, jobs |-> <<>>]

RECURSIVE JobsOf(_)
\* all_jobs after the loop: what the iterations appended, in order.
JobsOf(ones) ==
    IF ones = <<>> THEN <<>> ELSE Head(ones).jobs \o JobsOf(Tail(ones))

\* run_scraper(items), the scraper answering resps[i] to the call made for
\* the i-th element.
run_scraper(items, resps) ==
    LET respAt(i) == IF i \in DOMAIN resps THEN resps[i] ELSE NotIssued
        ones == [i \in DOMAIN items |-> ItemScrapeOne(items[i], respAt(i))]
        idx  == [i \in DOMAIN items |-> i]
    IN  [answers  |-> [i \in DOMAIN items |->
                         [called |-> ones[i].called, resp |-> respAt(i)]],
         all_jobs |-> JobsOf(ones),
         warned   |-> SelectSeq(idx, LAMBDA i : ones[i].failed),
         issued   |-> LET called == SelectSeq(idx, LAMBDA i : ones[i].called)
                      IN  [k \in DOMAIN called |->
                             LET parts == split(QueryChars(items[called[k]].s), "|")
                             IN  [search_term |-> strip(parts[1]),
                                  location |-> strip(parts[2])]],
         result   |-> CombineAndFilter(JobsOf(ones))]

\* ---- the inputs of a program run
\* The extractor fails; the model replies a list of queries, a list with a
\* number in it, an empty list, a string, a number, a call of exit().
MainInputs ==
    {[extract |-> FALSE, model |-> FALSE, hasText |-> FALSE, text |-> <<>>]}
    \cup {[extract |-> TRUE, model |-> TRUE, hasText |-> TRUE, text |-> x] :
             x \in { <<FencePython,
                       PyList(<<PyStr("Data Scientist | India"),
                                PyStr("Python Developer | India")>>),
                       Fence>>,
                     <<PyList(<<PyStr("Data Scientist | India"), PyInt("7")>>)>>,
                     <<PyList(<<>>)>>,
                     <<PyStr("Data Scientist | India")>>,
                     <<PyInt("7")>>,
                     <<PyExit>> }}

\* What scrape_jobs answers in a program run.
MainResponses ==
    { [ok |-> FALSE, frame |-> EmptyFrame],
      [ok |-> TRUE,
       frame |-> ScrapedFrame(ScrapedCols, <<Posting("Data Scientist", "X", "Y"),
                                             Posting("Team Leader", None, "Y2")>>)],
      [ok |-> TRUE,
       frame |-> ScrapedFrame(ScrapedCols \ {"job_url_direct"},
                              <<Posting("Data Scientist", None, "Y")>>)] }

MainInit ==
    /\ mpc = "get_search_queries"
    /\ gIn \in MainInputs
    /\ gOut = Returned(PyList(<<>>))
    /\ gpc = "start"
    /\ queries = <<>>
    /\ qi = 1
    /\ answers = <<>>
    /\ all_jobs = <<>>
    /\ issued = <<>>
    /\ warned = <<>>
    /\ sOut = EmptyFrame
    /\ spc = "loop"
    /\ sheetExists \in BOOLEAN
    /\ table \in (IF sheetExists THEN InitialTables ELSE {<<>>})
    /\ fmtAvail \in BOOLEAN
    /\ pc = "off"
    /\ input = EmptyFrame
    /\ df = Prepare(EmptyFrame)
    /\ attempt = 0
    /\ log = <<>>
    /\ calls = <<>>
    /\ failed = {}
    /\ tableBefore = <<>>
    /\ prev = NoRun
    /\ runs = 0
    /\ FilterIdle

\* Line 264: search_queries = get_search_queries().
MainGetQueries ==
    /\ mpc = "get_search_queries"
    /\ LET r == get_search_queries(gIn)
       IN  /\ gOut' = r
           /\ mpc' = IF r.raised # "" THEN r.raised ELSE "run_scraper"
    /\ gpc' = "done"
    /\ UNCHANGED <<gIn, filterVars, scrapeVars, sheetVars>>

\* Line 267: job_results = run_scraper(search_queries), the value not
\* iterable.
MainScraperRaises ==
    /\ mpc = "run_scraper"
    /\ ~Iterate(gOut.value).ok
    /\ mpc' = "TypeError"
    /\ UNCHANGED <<filterVars, queryVars, scrapeVars, sheetVars>>

\* Line 267: job_results = run_scraper(search_queries).  An exception of
\* filter_experience leaves run_scraper and ends the program.
MainRunScraper ==
    /\ mpc = "run_scraper"
    /\ Iterate(gOut.value).ok
    /\ LET items == Iterate(gOut.value).items
           calling == {i \in DOMAIN items : CallsScraper(items[i])}
       IN  \E resps \in [calling -> MainResponses] :
              LET r == run_scraper(items, resps)
              IN  /\ queries' = items
                  /\ qi' = Len(items) + 1
                  /\ answers' = r.answers
                  /\ all_jobs' = r.all_jobs
                  /\ issued' = r.issued
                  /\ warned' = r.warned
                  /\ sOut' = r.result.frame
                  /\ spc' = IF r.result.raised = "" THEN "done" ELSE r.result.raised
                  /\ mpc' = IF r.result.raised = "" THEN "save_to_sheet"
                            ELSE r.result.raised
    /\ UNCHANGED <<filterVars, queryVars, sheetVars>>

\* Line 268: save_to_sheet(job_results) is called (lines 198-208).
MainSaveToSheet ==
    /\ mpc = "save_to_sheet"
    /\ pc = "off"
    /\ input' = sOut
    /\ IF SkipsEmpty(sOut)
       THEN /\ log' = <<Msg("No jobs found to save.", 0)>>
            /\ pc' = "done"
       ELSE /\ log' = <<>>
            /\ pc' = "connect"
    /\ runs' = runs + 1
    /\ tableBefore' = table
    /\ df' = Prepare(EmptyFrame)
    /\ attempt' = 0
    /\ calls' = <<>>
    /\ failed' = {}
    /\ mpc' = "saving"
    /\ UNCHANGED <<sheetExists, table, fmtAvail, prev, filterVars, queryVars, scrapeVars>>

\* Line 270: save_to_sheet has returned; "Process completed." is logged.
MainCompleted ==
    /\ mpc = "saving"
    /\ pc = "done"
    /\ mpc' = "completed"
    /\ UNCHANGED <<filterVars, queryVars, scrapeVars, sheetVars>>

MainNext ==
    \/ MainGetQueries \/ MainScraperRaises \/ MainRunScraper
    \/ MainSaveToSheet \/ MainCompleted
    \/ ConnectFails \/ ConnectOpens \/ ConnectCreateFails
    \/ ConnectCreates \/ ConnectPermissionFails
    \/ ReadFails \/ ReadExisting
    \/ HeaderFails \/ HeaderWritten
    \/ FormatFails \/ FormatDone \/ FreezeFails \/ FreezeDone
    \/ AppendFails \/ AppendDone
    \/ RecountFails \/ RecountDone \/ ValidateFails \/ ValidateDone

MainSpec == MainInit /\ [][MainNext]_vars

(***************************************************************************)
(* C11.  No outcome of the extractor, the model call, the scrape calls     *)
(* and the calls to the store ends the program with an exception; a run    *)
(* that reaches "Process completed." has reported one of the outcomes      *)
(* Skipped, Written, Deduplicated, ConnectFailed, ReadFailed, WriteFailed. *)
(***************************************************************************)
OutcomeReported ==
    \/ Skipped \/ Deduplicated \/ ConnectFailed \/ ReadFailed \/ WriteFailed
    \/ HasMsg("Successfully appended new jobs.")

C11_NoUnhandledFault ==
    /\ mpc \notin Faults
    /\ mpc = "completed" => OutcomeReported

(***************************************************************************)
(* C12.  When every query fails run_scraper returns an empty frame, and    *)
(* save_to_sheet then ends as Skipped without a call to the store, the     *)
(* table unchanged.                                                        *)
(***************************************************************************)
EveryQueryFailed == Len(warned) = Len(queries)

C12_AllQueriesFailSkips ==
    (mpc \in {"save_to_sheet", "saving", "completed"} /\ EveryQueryFailed) =>
        /\ sOut = EmptyFrame
        /\ mpc # "save_to_sheet" =>
              /\ pc = "done"
              /\ log = <<Msg("No jobs found to save.", 0)>>
              /\ calls = <<>>
              /\ attempt = 0
              /\ table = tableBefore

C12_Witness ==
    /\ mpc = "completed"
    /\ Len(queries) = 5
    /\ Len(issued) = 5
    /\ EveryQueryFailed
    /\ \E i \in DOMAIN answers : ~answers[i].resp.ok
    /\ \E i \in DOMAIN answers :
          answers[i].resp.ok /\ answers[i].resp.frame.rows # <<>>
    /\ Skipped
    /\ Len(table) > 1

(***************************************************************************)
(* C13.  The table has exactly one header row, its first row: a table      *)
(* that already has a header never receives a second one, whatever the     *)
(* runs before it ended as.                                                *)
(***************************************************************************)
C13_SingleHeaderRow ==
    Len(table) > 0 =>
        /\ table[1] = header
        /\ \A i \in 2..Len(table) : table[i] # header

(***************************************************************************)
(* C14.  A run only appends: the rows present when it began are a prefix   *)
(* of the table throughout; and a run that ends as ConnectFailed,          *)
(* ReadFailed or WriteFailed leaves the table as it was when it began.     *)
(***************************************************************************)
IsPrefix(s, t) == Len(s) <= Len(t) /\ SubSeq(t, 1, Len(s)) = s

C14_AppendOnlyFailuresLeaveTable ==
    /\ IsPrefix(tableBefore, table)
    /\ (pc = "done" /\ (ConnectFailed \/ ReadFailed \/ WriteFailed)) =>
          table = tableBefore

(***************************************************************************)
(* C15.  When no connect, read or append call fails, a run on a listing    *)
(* set that is not empty appends the listings whose apply_link no data row *)
(* of the table holds, in their order, each with Applied? = FALSE, under a *)
(* header when the table was empty; when there is none to append and the   *)
(* table has data rows the run makes no write call and ends as             *)
(* Deduplicated(all).                                                      *)
(***************************************************************************)
\* The apply_link a data row holds: the cell before Applied?.
LinkOfRow(row) == row[Len(row) - 1]

LinksInTable(t) == {LinkOfRow(t[i]) : i \in {k \in 2..Len(t) : Len(t[k]) > 1}}

NewListings(d, t) ==
    SelectSeq(d.rows, LAMBDA r : astype_str(r.apply_link) \notin LinksInTable(t))

ExpectedRows(d, t) ==
    LET new == NewListings(d, t)
    IN  [i \in DOMAIN new |->
            [j \in DOMAIN header |->
                IF j = Len(header) THEN "FALSE" ELSE astype_str(new[i][cols[j]])]]

WriteCalls == {"append_row", "append_rows"}

C15_AppendsExactlyNewListings ==
    (pc = "done" /\ ~empty(input) /\ failed \cap RequiredSteps = {}) =>
        LET rows == ExpectedRows(input, tableBefore)
        IN  IF rows = <<>> /\ Len(tableBefore) > 1
            THEN /\ Deduplicated
                 /\ table = tableBefore
                 /\ \A c \in WriteCalls : ~Called(c)
            ELSE /\ Written(Len(rows))
                 /\ table = tableBefore
                            \o (IF tableBefore = <<>> THEN <<header>> ELSE <<>>)
                            \o rows

(***************************************************************************)
(* C16.  Every listing run_scraper returns has an apply_link that is       *)
(* neither missing nor empty.                                              *)
(***************************************************************************)
C16_FilteredLinksNonEmpty ==
    spc = "done" =>
        \A i \in DOMAIN sOut.rows : sOut.rows[i].apply_link \notin {None, NaN, ""}

(***************************************************************************)
(* C17.  filter_experience removes every listing whose title contains      *)
(* "N+ years" with N >= 5, and keeps one whose only seniority signal is    *)
(* "N+ years" with N < 5.                                                  *)
(***************************************************************************)
\* The titles of Titles that hold "N+ years" with N >= 5, and with N < 5.
FivePlusYearsTitles ==
    {"ML Engineer (5+ years)", "Dev 6+years", "Dev 15+  Years", "Dev 7+ years",
     "Dev 5+\nyears"}

UnderFiveYearsTitles == {"Dev 4+ years"}

C17_YearsThresholdCoversFivePlus ==
    (fpc = "done" /\ fOut.raised = "") =>
        /\ \A i \in DOMAIN fOut.frame.rows :
              fOut.frame.rows[i].title \notin FivePlusYearsTitles
        /\ SelectSeq(fOut.frame.rows, LAMBDA r : r.title \in UnderFiveYearsTitles)
              = SelectSeq(fIn.rows, LAMBDA r : r.title \in UnderFiveYearsTitles)

(***************************************************************************)
(* C18.  Every row a run appends under the header has the 7 columns of     *)
(* the header, the listing's apply_link at ordinal 5 and FALSE at ordinal  *)
(* 6, whatever listing columns the incoming frame carries.                 *)
(***************************************************************************)
AppendedRowIndexes ==
    {i \in (Len(tableBefore) + 1)..Len(table) : table[i] # header}

C18_AppendedRowsMatchHeader ==
    runs > 0 =>
        \A i \in AppendedRowIndexes :
            /\ Len(table[i]) = Len(header)
            /\ table[i][APPLY_LINK_INDEX + 2] = "FALSE"
            /\ \E k \in DOMAIN input.rows :
                  table[i][APPLY_LINK_INDEX + 1] = astype_str(input.rows[k].apply_link)
====
